---- MODULE Spec2Model ----
(***************************************************************************)
(* Model of paintdotnet_selection_to_clipboard.py: the polling loop of     *)
(* main() that relays Paint.NET's selection readout through the clipboard, *)
(* together with get_active_window, get_selection_info and                 *)
(* get_coordinates_as_json.                                                *)
(*                                                                         *)
(* Text is modelled as a sequence of one-character strings, so that        *)
(* joining, splitting, integer parsing and JSON serialisation are computed *)
(* character by character as the Python code computes them.                *)
(***************************************************************************)
EXTENDS Integers, Sequences, FiniteSets, TLC

(***************************************************************************)
(* Bounds.                                                                 *)
(***************************************************************************)
\* Selections shown by Paint.NET are <<10*i, 20*i, 300*i, 150*i>>, i \in 0..MaxSel.
MaxSel == 2

\* Coordinates given to the Selection Reader and the Format Translator on
\* their own are 35*k, k \in 0..MaxCoord.
MaxCoord == 2

\* Python's None where a text is expected.  A text is a sequence of
\* one-character strings, so this value is no text.
None == <<"None">>

\* The absence of a selection in Paint.NET.
NoSelection == <<>>

(***************************************************************************)
(* Text literals.                                                          *)
(***************************************************************************)
Digits == {"0", "1", "2", "3", "4", "5", "6", "7", "8", "9"}

\* The marker phrase tested at line 103.
MarkerPhrase ==
  << "S", "e", "l", "e", "c", "t", "i", "o", "n", " ", "t", "o", "p", " ", "l", "e", "f", "t" >>

\* The separator passed to str.join at line 108.
JoinSep ==
  << ",", " " >>

\* Pieces of the status-bar text Paint.NET shows for a selection.
TopLeftSep ==
  << ":", " " >>

FieldSep ==
  << ",", " " >>

SizeLabel ==
  << ".", " ", "B", "o", "u", "n", "d", "i", "n", "g", " ", "r", "e", "c", "t", "a", "n", "g", "l", "e", " ", "s", "i", "z", "e", ":", " " >>

\* Another status-bar text element (the zoom level), without the marker.
ZoomText ==
  << "1", "0", "0", "%" >>

\* Clipboard text unrelated to selections, placed by the user.
HelloWorld ==
  << "h", "e", "l", "l", "o", " ", "w", "o", "r", "l", "d" >>

\* json.dumps of the dict built at line 130: keys in insertion order
\* Height, Width, X, Y; separators ", " and ": ".
JsonHead ==
  << "{", "\"", "c", "h", "i", "l", "d", "r", "e", "n", "\"", ":", " ", "{", "\"", "H", "e", "i", "g", "h", "t", "\"", ":", " ", "{", "\"", "v", "a", "l", "u", "e", "\"", ":", " " >>

JsonWidth ==
  << "}", ",", " ", "\"", "W", "i", "d", "t", "h", "\"", ":", " ", "{", "\"", "v", "a", "l", "u", "e", "\"", ":", " " >>

JsonX ==
  << "}", ",", " ", "\"", "X", "\"", ":", " ", "{", "\"", "v", "a", "l", "u", "e", "\"", ":", " " >>

JsonY ==
  << "}", ",", " ", "\"", "Y", "\"", ":", " ", "{", "\"", "v", "a", "l", "u", "e", "\"", ":", " " >>

JsonTail ==
  << "}", "}", "}" >>

(***************************************************************************)
(* Python string and integer primitives.                                   *)
(***************************************************************************)
DigitVal(c) ==
  CASE c = "0" -> 0 [] c = "1" -> 1 [] c = "2" -> 2 [] c = "3" -> 3
    [] c = "4" -> 4 [] c = "5" -> 5 [] c = "6" -> 6 [] c = "7" -> 7
    [] c = "8" -> 8 [] c = "9" -> 9

DigitChar(d) ==
  CASE d = 0 -> "0" [] d = 1 -> "1" [] d = 2 -> "2" [] d = 3 -> "3"
    [] d = 4 -> "4" [] d = 5 -> "5" [] d = 6 -> "6" [] d = 7 -> "7"
    [] d = 8 -> "8" [] d = 9 -> "9"

\* str(n) for an int n, as json.dumps renders an integer value.
RECURSIVE IntToStr(_)
IntToStr(n) ==
  IF n < 0 THEN <<"-">> \o IntToStr(0 - n)
  ELSE IF n < 10 THEN <<DigitChar(n)>>
  ELSE IntToStr(n \div 10) \o <<DigitChar(n % 10)>>

\* str.strip() on whitespace (the only whitespace of the alphabet is " ").
RECURSIVE Strip(_)
Strip(s) ==
  IF s = <<>> THEN s
  ELSE IF Head(s) = " " THEN Strip(Tail(s))
  ELSE IF s[Len(s)] = " " THEN Strip(SubSeq(s, 1, Len(s) - 1))
  ELSE s

\* DigitsValue in base 8.
RECURSIVE DigitsValueBase8(_)
DigitsValueBase8(s) ==
  IF s = <<>> THEN 0
  ELSE 8 * DigitsValueBase8(SubSeq(s, 1, Len(s) - 1)) + DigitVal(s[Len(s)])

\* The value of a run of decimal digits.
RECURSIVE DigitsValue(_)
DigitsValue(s) ==
  IF s = <<>> THEN 0
  ELSE 10 * DigitsValue(SubSeq(s, 1, Len(s) - 1)) + DigitVal(s[Len(s)])

AllDigits(s) == s # <<>> /\ \A i \in 1..Len(s) : s[i] \in Digits

\* int(s): surrounding whitespace is ignored, an optional sign is accepted,
\* the rest must be a non-empty run of digits; anything else is ValueError.
IntParses(s) ==
  LET t == Strip(s)
  IN  IF t # <<>> /\ Head(t) \in {"+", "-"} THEN AllDigits(Tail(t))
      ELSE AllDigits(t)

PyInt(s) ==
  LET t == Strip(s)
  IN  IF Head(t) = "-" THEN 0 - DigitsValue(Tail(t))
      ELSE IF Head(t) = "+" THEN DigitsValue(Tail(t))
      ELSE DigitsValue(t)

\* sep.join(parts)
RECURSIVE Join(_, _)
Join(sep, parts) ==
  IF parts = <<>> THEN <<>>
  ELSE IF Len(parts) = 1 THEN parts[1]
  ELSE parts[1] \o sep \o Join(sep, Tail(parts))

\* s.split(c) for a one-character separator c.
RECURSIVE SplitFrom(_, _, _, _)
SplitFrom(s, c, i, cur) ==
  IF i > Len(s) THEN <<cur>>
  ELSE IF s[i] = c THEN <<cur>> \o SplitFrom(s, c, i + 1, <<>>)
  ELSE SplitFrom(s, c, i + 1, Append(cur, s[i]))

Split(s, c) == SplitFrom(s, c, 1, <<>>)

\* needle in hay
Contains(hay, needle) ==
  \E i \in 1..(Len(hay) - Len(needle) + 1) :
    SubSeq(hay, i, i + Len(needle) - 1) = needle

(***************************************************************************)
(* Format Translator: get_coordinates_as_json.                             *)
(***************************************************************************)
\* json.dumps of {"children": {"Height": {"value": h}, "Width": {"value": w},
\*                             "X": {"value": x}, "Y": {"value": y}}}
JsonDumps(x, y, w, h) ==
  JsonHead \o IntToStr(h) \o JsonWidth \o IntToStr(w)
           \o JsonX \o IntToStr(x) \o JsonY \o IntToStr(y) \o JsonTail

\* The canonical HumanEncoding of a selection: "x, y, width, height".
HumanEncoding(t) ==
  Join(JoinSep, <<IntToStr(t[1]), IntToStr(t[2]), IntToStr(t[3]), IntToStr(t[4])>>)

\* TRUE iff get_coordinates_as_json(s) raises ValueError: the unpacking of
\* split(",") needs exactly four fields and each int() must parse.
TranslationRaises(s) ==
  LET f == Split(s, ",")
  IN  IF Len(f) # 4 THEN TRUE
      ELSE \E i \in 1..4 : ~IntParses(f[i])

\* get_coordinates_as_json with x and y taken in the wrong order.
get_coordinates_swapped(coordiantes) ==
  LET f == Split(coordiantes, ",")
      y == PyInt(f[1])
      x == PyInt(f[2])
      w == PyInt(f[3])
      h == PyInt(f[4])
  IN  JsonDumps(x, y, w, h)

get_coordinates_as_json(coordiantes) ==
  LET f == Split(coordiantes, ",")
      x == PyInt(f[1])
      y == PyInt(f[2])
      w == PyInt(f[3])
      h == PyInt(f[4])
  IN  JsonDumps(x, y, w, h)

(***************************************************************************)
(* The environment of one poll: what the status bar of Paint.NET holds.    *)
(***************************************************************************)
SelectionTuples == { <<10 * i, 20 * i, 300 * i, 150 * i>> : i \in 0..MaxSel }

\* A number as the status bar shows it, optionally zero-padded.
Shown(n, pad) == IF pad THEN <<"0">> \o IntToStr(n) ELSE IntToStr(n)

\* "Selection top left: X, Y. Bounding rectangle size: W, H"
ReadoutText(t, pad) ==
  MarkerPhrase \o TopLeftSep \o Shown(t[1], pad) \o FieldSep \o Shown(t[2], pad)
    \o SizeLabel \o Shown(t[3], pad) \o FieldSep \o Shown(t[4], pad)

\* "Selection top left: X, Y": the marker with two numbers only.
PartialText(t) ==
  MarkerPhrase \o TopLeftSep \o Shown(t[1], FALSE) \o FieldSep \o Shown(t[2], FALSE)

\* A Text descendant of the status bar: window_text() returns text or raises.
TextCtrl(txt) == [raises |-> "none", text |-> txt]

DetachedCtrl == [raises |-> "LookupError", text |-> <<>>]

BrokenCtrl == [raises |-> "Exception", text |-> <<>>]

\* bar: outcome of wait_until_passes; texts: the Text descendants in order;
\* shown: the selection Paint.NET displays (NoSelection when none).
StatusBar(b, ts, t) == [bar |-> b, texts |-> ts, shown |-> t]

StatusBars ==
       { StatusBar("found", <<TextCtrl(ZoomText), TextCtrl(ReadoutText(t, pad))>>, t) :
           t \in SelectionTuples, pad \in BOOLEAN }
  \cup { StatusBar("found", <<TextCtrl(PartialText(t)), TextCtrl(ReadoutText(t, FALSE))>>, t) :
           t \in SelectionTuples }
  \cup { StatusBar("TimeoutError", <<>>, NoSelection),
         StatusBar("found", <<>>, NoSelection),
         StatusBar("found", <<TextCtrl(ZoomText)>>, NoSelection),
         StatusBar("found", <<TextCtrl(PartialText(<<10, 20, 300, 150>>))>>, NoSelection),
         StatusBar("found", <<DetachedCtrl, TextCtrl(ReadoutText(<<10, 20, 300, 150>>, FALSE))>>,
                   <<10, 20, 300, 150>>),
         StatusBar("found", <<TextCtrl(ZoomText), BrokenCtrl>>, NoSelection) }

(***************************************************************************)
(* The selection pattern (line 135-136).  A pattern of the shape           *)
(*   (C+)[^C]+(C+)[^C]+ ... (C+)                                            *)
(* is modelled by its character class C and its number of groups; the      *)
(* default is C = \d with four groups.                                     *)
(***************************************************************************)
DefaultPattern == [class |-> Digits, groups |-> 4]

\* paintdotnet_selection_regex_pattern = "([\d.]+)[^\d.]+([\d.]+)[^\d.]+([\d.]+)[^\d.]+([\d.]+)"
DecimalPattern == [class |-> Digits \cup {"."}, groups |-> 4]

\* paintdotnet_selection_regex_pattern = "(\d+)[^\d]+(\d+)"
PairPattern == [class |-> Digits, groups |-> 2]

Patterns == {DefaultPattern, DecimalPattern, PairPattern}

\* The maximal runs of characters of class cls in txt, left to right.
RECURSIVE RunsFrom(_, _, _, _)
RunsFrom(txt, cls, i, cur) ==
  IF i > Len(txt) THEN (IF cur = <<>> THEN <<>> ELSE <<cur>>)
  ELSE IF txt[i] \in cls THEN RunsFrom(txt, cls, i + 1, Append(cur, txt[i]))
  ELSE (IF cur = <<>> THEN <<>> ELSE <<cur>>) \o RunsFrom(txt, cls, i + 1, <<>>)

\* pattern.search(txt): the leftmost match starts at the first run, every
\* greedy group takes a whole run; no match when there are too few runs.
\* The result is match.groups(), or <<>> for no match.
PatternSearch(pattern, txt) ==
  LET runs == RunsFrom(txt, pattern.class, 1, <<>>)
  IN  IF Len(runs) >= pattern.groups THEN SubSeq(runs, 1, pattern.groups) ELSE <<>>

(***************************************************************************)
(* Selection Reader: get_selection_info.                                   *)
(***************************************************************************)
\* ScanTexts without the handlers of lines 113-121: the exception of the
\* accessibility layer leaves get_selection_info.
RECURSIVE ScanTextsUncaught(_, _, _)
ScanTextsUncaught(pattern, texts, i) ==
  IF i > Len(texts) THEN None
  ELSE IF texts[i].raises # "none" THEN <<texts[i].raises>>
  ELSE IF ~Contains(texts[i].text, MarkerPhrase) THEN ScanTextsUncaught(pattern, texts, i + 1)
  ELSE LET groups == PatternSearch(pattern, texts[i].text)
       IN  IF groups # <<>> THEN Join(JoinSep, groups)
           ELSE ScanTextsUncaught(pattern, texts, i + 1)

\* The for loop of lines 101-111 from element i on, with the handlers of
\* lines 113-121 for an exception raised by the accessibility layer.
RECURSIVE ScanTexts(_, _, _)
ScanTexts(pattern, texts, i) ==
  IF i > Len(texts) THEN None
  ELSE IF texts[i].raises # "none" THEN None
  ELSE IF ~Contains(texts[i].text, MarkerPhrase) THEN ScanTexts(pattern, texts, i + 1)
  ELSE LET groups == PatternSearch(pattern, texts[i].text)
       IN  IF groups # <<>> THEN Join(JoinSep, groups)
           ELSE ScanTexts(pattern, texts, i + 1)

get_selection_info(pattern, status) ==
  IF status.bar = "TimeoutError" THEN None
  ELSE ScanTexts(pattern, status.texts, 1)

(***************************************************************************)
(* Focus Probe: get_active_window.                                         *)
(***************************************************************************)
ExeNames == {"paintdotnet.exe", "PRS.exe", "explorer.exe"}

\* What the operating system answers to the probe's queries.  Queries after
\* the first failing one are not made; their fields hold "-".
FocusEnvs ==
       { [hwnd |-> 0, title |-> "-", pid |-> "-", proc |-> "-", attach |-> "-"],
         [hwnd |-> 1, title |-> "", pid |-> "-", proc |-> "-", attach |-> "-"],
         [hwnd |-> 1, title |-> "w", pid |-> "raises", proc |-> "-", attach |-> "-"] }
  \cup { [hwnd |-> 1, title |-> "w", pid |-> "ok", proc |-> e, attach |-> "-"] :
           e \in {"NoSuchProcess", "AccessDenied", "OSError"} }
  \cup { [hwnd |-> 1, title |-> "w", pid |-> "ok", proc |-> "explorer.exe", attach |-> a] :
           a \in {"missing", "raises"} }
  \cup { [hwnd |-> 1, title |-> "w", pid |-> "ok", proc |-> e, attach |-> "ok"] :
           e \in ExeNames }

\* get_active_window returns None, ...
NoWindow == "None"

\* ... or lets an exception of psutil through (line 62 catches two classes) ...
ProbeRaised == "raised"

\* The probe field of a step that is no poll of the loop.
NoProbe == "-"

\* ... or returns the dict, of which the loop uses exe_name.
get_active_window(env) ==
  IF env.hwnd = 0 THEN NoWindow
  ELSE IF env.title = "" THEN NoWindow
  ELSE IF env.pid = "raises" THEN NoWindow
  ELSE IF env.proc \in {"NoSuchProcess", "AccessDenied"} THEN NoWindow
  ELSE IF env.proc \notin ExeNames THEN ProbeRaised
  ELSE IF env.attach # "ok" THEN NoWindow
  ELSE env.proc

(***************************************************************************)
(* Sync Loop: main.                                                        *)
(***************************************************************************)
\* time.sleep of lines 145, 168 and 177, in milliseconds.
IdleSleepMs == 500

\* time.sleep of line 159, in milliseconds.
ProducerSleepMs == 100

\* Role with PRS.exe sent to the Producer branch.
RoleConsumerProduces(active_window) ==
  IF active_window = NoWindow THEN "NoFocus"
  ELSE IF active_window \in {"paintdotnet.exe", "PRS.exe"} THEN "Producer"
  ELSE "AnyOther"

\* Role with the case None missing: None falls into the default case.
RoleWithoutNone(active_window) ==
  IF active_window = "paintdotnet.exe" THEN "Producer"
  ELSE IF active_window = "PRS.exe" THEN "DesignatedConsumer"
  ELSE "AnyOther"

\* The match statements of lines 143-170.
Role(active_window) ==
  IF active_window = NoWindow THEN "NoFocus"
  ELSE IF active_window = "paintdotnet.exe" THEN "Producer"
  ELSE IF active_window = "PRS.exe" THEN "DesignatedConsumer"
  ELSE "AnyOther"

\* Truthy without the test.
TruthyAlways(v) == TRUE

\* "if v:" for v a str or None.
Truthy(v) == v # None /\ v # <<>>

\* ProducerWrites without the comparison.
ProducerWritesAlways(last_txt, selection_data) == TRUE

\* Line 154.
ProducerWrites(last_txt, selection_data) == last_txt # selection_data

\* ConsumerWrites without the inner test of line 165.
ConsumerWritesUnguarded(current_clipboard, last_txt, last_json) ==
  current_clipboard # last_json

\* ConsumerWrites without either test.
ConsumerWritesAlways(current_clipboard, last_txt, last_json) == TRUE

\* Lines 164-165.
ConsumerWrites(current_clipboard, last_txt, last_json) ==
  current_clipboard # last_json /\ current_clipboard = last_txt

\* OtherWrites with the tests of the PRS.exe branch.
OtherWritesAsConsumer(current_clipboard, last_txt, last_json) ==
  current_clipboard # last_json /\ current_clipboard = last_txt

\* OtherWrites without the inner test of line 174.
OtherWritesUnguarded(current_clipboard, last_txt, last_json) ==
  current_clipboard # last_txt

\* Lines 173-174.
OtherWrites(current_clipboard, last_txt, last_json) ==
  current_clipboard # last_txt /\ current_clipboard = last_json

\* pyperclip.paste() or pyperclip.copy() may raise (the clipboard cannot be
\* opened); a failed copy leaves the clipboard as it was.
Failures == {"none", "paste", "copy"}

\* What other actors put on the clipboard.
ExternalTexts ==
       {HelloWorld, <<>>}
  \cup { Join(JoinSep, <<IntToStr(t[1]), IntToStr(t[2]), IntToStr(t[3]), IntToStr(t[4])>>) :
           t \in SelectionTuples }
  \cup { JsonDumps(t[1], t[2], t[3], t[4]) : t \in SelectionTuples }

VARIABLES
  pattern,                \* the compiled selection pattern (line 136)
  last_coordinates_txt,   \* lastHuman
  last_coordinates_json,  \* lastStructured, serialised
  clipboard,              \* the text on the system clipboard
  pc,                     \* "loop" while main() runs, "exit" after it
  error,                  \* the exit code set at lines 282, 320, 323
  last_read,              \* the value of the latest Producer read
  cycle                   \* what the latest step was and did

vars ==
  <<pattern, last_coordinates_txt, last_coordinates_json, clipboard, pc, error,
    last_read, cycle>>

\* The roles of a poll cycle.
PollRoles == {"NoFocus", "Producer", "DesignatedConsumer", "AnyOther"}

\* The record of a step: the role, the probe's result, the reader's result,
\* the selection Paint.NET showed, the call that raised, the state and the
\* clipboard before the step, and the clipboard reads, clipboard writes, log
\* lines and sleep of the step.  Two fields look one step further back:
\* after_consumer says that the step before was a DesignatedConsumer cycle
\* that ran to its end from a clipboard holding lastHuman; repeat says that
\* the step before was a poll cycle that ran to its end with the same focused
\* application and the same selection readout as this one.
Step(role, probe, sel, shown, raised, reads, writes, logs, sleep) ==
  [role |-> role, probe |-> probe, selection |-> sel, shown |-> shown,
   raised |-> raised, clip0 |-> clipboard, txt0 |-> last_coordinates_txt,
   json0 |-> last_coordinates_json, read0 |-> last_read,
   reads |-> reads, writes |-> writes, logs |-> logs, sleep |-> sleep,
   after_consumer |-> /\ cycle.role = "DesignatedConsumer"
                      /\ cycle.raised = "none"
                      /\ Truthy(cycle.txt0)
                      /\ cycle.clip0 = cycle.txt0,
   repeat |-> /\ role \in PollRoles
              /\ cycle.role = role
              /\ cycle.raised = "none"
              /\ cycle.probe = probe
              /\ cycle.selection = sel
              /\ cycle.shown = shown]

\* RememberSelection storing the re-encoded integers, not the text read.
RememberCanonical(selection_data) ==
  LET f == Split(selection_data, ",")
  IN  [txt |-> HumanEncoding(<<PyInt(f[1]), PyInt(f[2]), PyInt(f[3]), PyInt(f[4])>>),
       json |-> get_coordinates_as_json(selection_data)]

\* RememberSelection without line 158.
RememberTextOnly(selection_data) ==
  [txt |-> selection_data, json |-> last_coordinates_json]

\* Lines 157-158 when the translation returns.
RememberSelection(selection_data) ==
  [txt |-> selection_data, json |-> get_coordinates_as_json(selection_data)]

Init ==
  /\ pattern \in Patterns
  /\ last_coordinates_txt = None
  /\ last_coordinates_json = None
  /\ clipboard \in {HelloWorld, <<>>}
  /\ pc = "loop"
  /\ error = 0
  /\ last_read = None
  /\ cycle = [role |-> "Start", probe |-> NoProbe, selection |-> None,
              shown |-> NoSelection, raised |-> "none", clip0 |-> clipboard,
              txt0 |-> None, json0 |-> None, read0 |-> None,
              reads |-> 0, writes |-> 0, logs |-> 0, sleep |-> 0,
              after_consumer |-> FALSE, repeat |-> FALSE]

\* An exception leaves main() and reaches line 321.
Fatal ==
  /\ pc' = "exit"
  /\ error' = 1

Continue == UNCHANGED <<pc, error>>

\* Lines 144-146.
NoFocus(env) ==
  /\ pc = "loop"
  /\ get_active_window(env) # ProbeRaised
  /\ Role(get_active_window(env)) = "NoFocus"
  /\ cycle' = Step("NoFocus", NoWindow, None, NoSelection, "none", 0, 0, 0, IdleSleepMs)
  /\ UNCHANGED <<pattern, last_coordinates_txt, last_coordinates_json, clipboard,
                 pc, error, last_read>>

\* Line 142 when get_active_window raises.
ProbeFails(env) ==
  /\ pc = "loop"
  /\ get_active_window(env) = ProbeRaised
  /\ cycle' = Step("ProbeFails", ProbeRaised, None, NoSelection, "probe", 0, 0, 0, 0)
  /\ Fatal
  /\ UNCHANGED <<pattern, last_coordinates_txt, last_coordinates_json, clipboard,
                 last_read>>

\* Lines 150-160.
Producer(env, status, fail) ==
  LET exe == get_active_window(env)
      selection_data == get_selection_info(pattern, status)
      P(raised, reads, writes, logs, sleep) ==
        Step("Producer", exe, selection_data, status.shown, raised,
             reads, writes, logs, sleep)
  IN
  /\ pc = "loop"
  /\ exe # ProbeRaised
  /\ Role(exe) = "Producer"
  /\ UNCHANGED pattern
  /\ IF ~Truthy(selection_data) THEN
       /\ cycle' = P("none", 0, 0, 0, ProducerSleepMs)
       /\ Continue
       /\ UNCHANGED <<last_coordinates_txt, last_coordinates_json, clipboard, last_read>>
     ELSE IF fail = "paste" THEN
       /\ cycle' = P("paste", 1, 0, 0, 0)
       /\ Fatal
       /\ UNCHANGED <<last_coordinates_txt, last_coordinates_json, clipboard, last_read>>
     ELSE IF ~ProducerWrites(last_coordinates_txt, selection_data) THEN
       /\ cycle' = P("none", 1, 0, 0, ProducerSleepMs)
       /\ Continue
       /\ last_read' = selection_data
       /\ UNCHANGED <<last_coordinates_txt, last_coordinates_json, clipboard>>
     ELSE IF fail = "copy" THEN
       /\ cycle' = P("copy", 1, 0, 0, 0)
       /\ Fatal
       /\ last_read' = selection_data
       /\ UNCHANGED <<last_coordinates_txt, last_coordinates_json, clipboard>>
     ELSE IF TranslationRaises(selection_data) THEN
       /\ clipboard' = selection_data
       /\ last_coordinates_txt' = selection_data
       /\ cycle' = P("translate", 1, 1, 1, 0)
       /\ Fatal
       /\ last_read' = selection_data
       /\ UNCHANGED last_coordinates_json
     ELSE
       /\ clipboard' = selection_data
       /\ last_coordinates_txt' = RememberSelection(selection_data).txt
       /\ last_coordinates_json' = RememberSelection(selection_data).json
       /\ cycle' = P("none", 1, 1, 1, ProducerSleepMs)
       /\ Continue
       /\ last_read' = selection_data

\* Lines 161-169.
DesignatedConsumer(env, fail) ==
  LET exe == get_active_window(env)
      C(raised, reads, writes, logs, sleep) ==
        Step("DesignatedConsumer", exe, None, NoSelection, raised,
             reads, writes, logs, sleep)
  IN
  /\ pc = "loop"
  /\ exe # ProbeRaised
  /\ Role(exe) = "DesignatedConsumer"
  /\ UNCHANGED <<pattern, last_coordinates_txt, last_coordinates_json, last_read>>
  /\ IF ~Truthy(last_coordinates_json) THEN
       /\ cycle' = C("none", 0, 0, 0, IdleSleepMs)
       /\ Continue
       /\ UNCHANGED clipboard
     ELSE IF fail = "paste" THEN
       /\ cycle' = C("paste", 1, 0, 0, 0)
       /\ Fatal
       /\ UNCHANGED clipboard
     ELSE IF ~ConsumerWrites(clipboard, last_coordinates_txt, last_coordinates_json) THEN
       /\ cycle' = C("none", 1, 0, 0, IdleSleepMs)
       /\ Continue
       /\ UNCHANGED clipboard
     ELSE IF fail = "copy" THEN
       /\ cycle' = C("copy", 1, 0, 0, 0)
       /\ Fatal
       /\ UNCHANGED clipboard
     ELSE
       /\ clipboard' = last_coordinates_json
       /\ cycle' = C("none", 1, 1, 1, IdleSleepMs)
       /\ Continue

\* Lines 170-178.
AnyOther(env, fail) ==
  LET exe == get_active_window(env)
      A(raised, reads, writes, logs, sleep) ==
        Step("AnyOther", exe, None, NoSelection, raised,
             reads, writes, logs, sleep)
  IN
  /\ pc = "loop"
  /\ exe # ProbeRaised
  /\ Role(exe) = "AnyOther"
  /\ UNCHANGED <<pattern, last_coordinates_txt, last_coordinates_json, last_read>>
  /\ IF ~Truthy(last_coordinates_txt) THEN
       /\ cycle' = A("none", 0, 0, 0, IdleSleepMs)
       /\ Continue
       /\ UNCHANGED clipboard
     ELSE IF fail = "paste" THEN
       /\ cycle' = A("paste", 1, 0, 0, 0)
       /\ Fatal
       /\ UNCHANGED clipboard
     ELSE IF ~OtherWrites(clipboard, last_coordinates_txt, last_coordinates_json) THEN
       /\ cycle' = A("none", 1, 0, 0, IdleSleepMs)
       /\ Continue
       /\ UNCHANGED clipboard
     ELSE IF fail = "copy" THEN
       /\ cycle' = A("copy", 1, 0, 0, 0)
       /\ Fatal
       /\ UNCHANGED clipboard
     ELSE
       /\ clipboard' = last_coordinates_txt
       /\ cycle' = A("none", 1, 1, 1, IdleSleepMs)
       /\ Continue

\* Another actor (the user, another application) replaces the clipboard text.
ExternalCopy(t) ==
  /\ pc = "loop"
  /\ clipboard' = t
  /\ cycle' = Step("External", NoProbe, None, NoSelection, "none", 0, 0, 0, 0)
  /\ UNCHANGED <<pattern, last_coordinates_txt, last_coordinates_json, pc, error,
                 last_read>>

\* Ctrl-C: KeyboardInterrupt reaches line 318.
Interrupt ==
  /\ pc = "loop"
  /\ pc' = "exit"
  /\ error' = 130
  /\ cycle' = Step("Interrupt", NoProbe, None, NoSelection, "none", 0, 0, 0, 0)
  /\ UNCHANGED <<pattern, last_coordinates_txt, last_coordinates_json, clipboard,
                 last_read>>

Next ==
  \/ \E env \in FocusEnvs : NoFocus(env)
  \/ \E env \in FocusEnvs : ProbeFails(env)
  \/ \E env \in FocusEnvs, status \in StatusBars, fail \in Failures :
       Producer(env, status, fail)
  \/ \E env \in FocusEnvs, fail \in Failures : DesignatedConsumer(env, fail)
  \/ \E env \in FocusEnvs, fail \in Failures : AnyOther(env, fail)
  \/ \E t \in ExternalTexts : ExternalCopy(t)
  \/ Interrupt

Spec == Init /\ [][Next]_vars

(***************************************************************************)
(* The Producer's pipeline on its own: get_selection_info (line 151)       *)
(* followed by lines 157-158, on every status bar of ReaderBars.  Here     *)
(* cycle holds the arguments of the call, last_read the value returned by  *)
(* get_selection_info, and pc the position in the pipeline.                *)
(***************************************************************************)
ReaderTuples ==
  LET c == { 35 * k : k \in 0..MaxCoord }
  IN  { <<x, y, w, h>> : x \in c, y \in c, w \in c, h \in c }

ReaderBars ==
       StatusBars
  \cup { StatusBar("found", <<TextCtrl(ReadoutText(t, pad))>>, t) :
           t \in ReaderTuples, pad \in BOOLEAN }
  \cup { StatusBar("found", <<TextCtrl(ZoomText), TextCtrl(PartialText(t)),
                              TextCtrl(ReadoutText(t, FALSE))>>, t) :
           t \in ReaderTuples }

ReaderInit ==
  /\ pattern \in Patterns
  /\ \E status \in ReaderBars :
       cycle = [role |-> "Call", status |-> status, shown |-> status.shown]
  /\ last_read = None
  /\ last_coordinates_txt = None
  /\ last_coordinates_json = None
  /\ clipboard = <<>>
  /\ pc = "reader"
  /\ error = 0

\* Line 151.
ReadSelection ==
  /\ pc = "reader"
  /\ last_read' = get_selection_info(pattern, cycle.status)
  /\ pc' = "translator"
  /\ UNCHANGED <<pattern, cycle, last_coordinates_txt, last_coordinates_json,
                 clipboard, error>>

\* Line 152 with a falsy selection_data.
NothingRead ==
  /\ pc = "translator"
  /\ ~Truthy(last_read)
  /\ pc' = "done"
  /\ UNCHANGED <<pattern, cycle, last_read, last_coordinates_txt,
                 last_coordinates_json, clipboard, error>>

\* Lines 157-158.
Translate ==
  /\ pc = "translator"
  /\ Truthy(last_read)
  /\ ~TranslationRaises(last_read)
  /\ last_coordinates_txt' = RememberSelection(last_read).txt
  /\ last_coordinates_json' = RememberSelection(last_read).json
  /\ pc' = "done"
  /\ UNCHANGED <<pattern, cycle, last_read, clipboard, error>>

\* Line 157, then line 158 raising ValueError.
TranslateFails ==
  /\ pc = "translator"
  /\ Truthy(last_read)
  /\ TranslationRaises(last_read)
  /\ last_coordinates_txt' = last_read
  /\ Fatal
  /\ UNCHANGED <<pattern, cycle, last_read, last_coordinates_json, clipboard>>

ReaderNext ==
  \/ ReadSelection
  \/ NothingRead
  \/ Translate
  \/ TranslateFails

ReaderSpec == ReaderInit /\ [][ReaderNext]_vars

(***************************************************************************)
(* Properties of the Sync Loop.  cycle holds the state and the clipboard   *)
(* before the latest step (txt0, json0, clip0); the unprimed variables     *)
(* hold them after it.                                                     *)
(***************************************************************************)

\* C1: while the loop runs, lastStructured is the Format Translator's image
\* of lastHuman: both are None, or both are set and last_coordinates_json
\* is get_coordinates_as_json(last_coordinates_txt).
C1_StructuredIsImageOfHuman ==
  pc = "loop" =>
    IF last_coordinates_txt = None
    THEN last_coordinates_json = None
    ELSE /\ last_coordinates_json # None
         /\ last_coordinates_json = get_coordinates_as_json(last_coordinates_txt)

\* A selection was published, translated for PRS.exe, and the loop runs on.
C1_Witness ==
  /\ pc = "loop"
  /\ cycle.role = "DesignatedConsumer"
  /\ cycle.writes = 1
  /\ last_coordinates_txt # None
  /\ clipboard = last_coordinates_json

\* C2: a DesignatedConsumer cycle that finds the clipboard holding neither
\* lastHuman nor lastStructured's serialization leaves the clipboard as it
\* found it (also when nothing has been observed yet).
C2_ConsumerKeepsUnrelatedClipboard ==
  (/\ cycle.role = "DesignatedConsumer"
   /\ cycle.clip0 # cycle.txt0
   /\ cycle.clip0 # cycle.json0)
  => clipboard = cycle.clip0

\* PRS.exe is focused, a selection is remembered, the clipboard holds
\* "hello world"; the cycle read the clipboard.
C2_Witness ==
  /\ cycle.role = "DesignatedConsumer"
  /\ cycle.txt0 # None
  /\ cycle.json0 # None
  /\ cycle.clip0 = HelloWorld
  /\ cycle.reads = 1
  /\ cycle.raised = "none"

\* C3: an AnyOther cycle that finds the clipboard holding neither
\* lastStructured's serialization nor lastHuman leaves the clipboard as it
\* found it (also when nothing has been observed yet).
C3_OtherKeepsUnrelatedClipboard ==
  (/\ cycle.role = "AnyOther"
   /\ cycle.clip0 # cycle.json0
   /\ cycle.clip0 # cycle.txt0)
  => clipboard = cycle.clip0

\* Another application is focused, a selection is remembered, the clipboard
\* holds "hello world"; the cycle read the clipboard.
C3_Witness ==
  /\ cycle.role = "AnyOther"
  /\ cycle.txt0 # None
  /\ cycle.json0 # None
  /\ cycle.clip0 = HelloWorld
  /\ cycle.reads = 1
  /\ cycle.raised = "none"

\* C4: a Producer cycle writes the clipboard only when the value it read
\* differs from lastHuman; a Producer read of the same value as the previous
\* Producer read writes nothing and logs nothing, whatever happened between.
C4_ProducerWritesOnlyNewValue ==
  /\ (cycle.role = "Producer" /\ cycle.writes = 1)
       => cycle.selection # cycle.txt0
  /\ (cycle.role = "Producer" /\ Truthy(cycle.selection)
        /\ cycle.selection = cycle.read0)
       => (cycle.writes = 0 /\ cycle.logs = 0 /\ clipboard = cycle.clip0)

\* The same value is read again although the clipboard meanwhile holds
\* "hello world", put there by another actor.
C4_Witness ==
  /\ cycle.role = "Producer"
  /\ Truthy(cycle.selection)
  /\ cycle.selection = cycle.read0
  /\ cycle.clip0 = HelloWorld
  /\ cycle.raised = "none"

\* C5 as stated: in every role, the loop overwrites the clipboard only when
\* the clipboard holds the loop's last publication in the other encoding.
C5_Original ==
  cycle.writes = 1 =>
    \/ cycle.role = "DesignatedConsumer" /\ cycle.clip0 = cycle.txt0
    \/ cycle.role \in {"Producer", "AnyOther"} /\ cycle.clip0 = cycle.json0

\* C5 as amended: a DesignatedConsumer or AnyOther cycle overwrites the
\* clipboard only when the text it read there equals the loop's last
\* publication in the other encoding; a Producer cycle's write is guarded by
\* the new selection differing from lastHuman, not by the clipboard's content.
C5_TranslatingRolesOverwriteOwnPublication ==
  /\ (cycle.role = "DesignatedConsumer" /\ cycle.writes = 1)
       => (cycle.clip0 = cycle.txt0 /\ clipboard = cycle.json0)
  /\ (cycle.role = "AnyOther" /\ cycle.writes = 1)
       => (cycle.clip0 = cycle.json0 /\ clipboard = cycle.txt0)
  /\ (cycle.role = "Producer" /\ cycle.writes = 1)
       => cycle.selection # cycle.txt0

\* Another application is focused and the structured form is translated back.
C5_Witness ==
  /\ cycle.role = "AnyOther"
  /\ cycle.writes = 1
  /\ cycle.clip0 = cycle.json0
  /\ clipboard = last_coordinates_txt

\* C6: a Producer cycle that reads four integer fields whose HumanEncoding
\* differs from lastHuman, and runs to its end, leaves that encoding on the
\* clipboard and in lastHuman, and in lastStructured the document whose X, Y,
\* Width and Height are the four integers Paint.NET showed, in that order.
C6_ProducerPublishesSelection ==
  (/\ cycle.role = "Producer"
   /\ cycle.raised = "none"
   /\ Truthy(cycle.selection)
   /\ Len(cycle.shown) = 4
   /\ cycle.selection # cycle.txt0)
  => /\ clipboard = cycle.selection
     /\ last_coordinates_txt = cycle.selection
     /\ last_coordinates_json =
          JsonDumps(cycle.shown[1], cycle.shown[2], cycle.shown[3], cycle.shown[4])

\* Scenario A after an earlier, different selection.
C6_Witness ==
  /\ cycle.role = "Producer"
  /\ cycle.raised = "none"
  /\ cycle.writes = 1
  /\ cycle.shown = <<10, 20, 300, 150>>
  /\ cycle.txt0 # None
  /\ clipboard = <<"1", "0", ",", " ", "2", "0", ",", " ", "3", "0", "0", ",", " ", "1", "5", "0">>
  /\ last_coordinates_json = JsonDumps(10, 20, 300, 150)

\* C7: a failure raised by the clipboard read, the clipboard write or the
\* translation inside a cycle does not end the loop.
C7_CycleFailureIsNotFatal ==
  cycle.raised \in {"paste", "copy", "translate"} => pc = "loop"

\* C8: a cycle in which an error occurred leaves the clipboard as it found it.
C8_ErrorLeavesClipboard ==
  cycle.raised # "none" => clipboard = cycle.clip0

\* C9: a Producer cycle in which the Selection Reader returns None changes
\* neither the clipboard nor lastHuman nor lastStructured.
C9_ProducerWithoutSelection ==
  (cycle.role = "Producer" /\ cycle.selection = None)
  => /\ clipboard = cycle.clip0
     /\ last_coordinates_txt = cycle.txt0
     /\ last_coordinates_json = cycle.json0
     /\ cycle.writes = 0

\* Paint.NET is focused with a selection remembered, and the reader finds no
\* readout.
C9_Witness ==
  /\ cycle.role = "Producer"
  /\ cycle.selection = None
  /\ cycle.txt0 # None
  /\ cycle.clip0 # cycle.txt0
  /\ pc = "loop"

\* C10: a cycle whose Focus Probe returns None reads no clipboard, writes no
\* clipboard, changes no SyncState and only sleeps 0.5 s.
C10_NoFocusOnlySleeps ==
  cycle.probe = NoWindow
  => /\ cycle.reads = 0
     /\ cycle.writes = 0
     /\ cycle.logs = 0
     /\ clipboard = cycle.clip0
     /\ last_coordinates_txt = cycle.txt0
     /\ last_coordinates_json = cycle.json0
     /\ cycle.sleep = IdleSleepMs
     /\ pc = "loop"

\* No window is focused while the clipboard holds the structured form that an
\* AnyOther cycle would translate back.
C10_Witness ==
  /\ cycle.role = "NoFocus"
  /\ cycle.probe = NoWindow
  /\ cycle.txt0 # None
  /\ clipboard = last_coordinates_json

\* C12: from a state where lastHuman is set and is the clipboard's text, a
\* DesignatedConsumer cycle that runs to its end leaves lastStructured's
\* serialization on the clipboard; an AnyOther cycle right after it leaves
\* lastHuman there again; neither changes lastHuman or lastStructured.
C12_ConsumerThenOtherRoundTrip ==
  /\ (/\ cycle.role = "DesignatedConsumer"
      /\ cycle.raised = "none"
      /\ Truthy(cycle.txt0)
      /\ cycle.clip0 = cycle.txt0)
     => /\ cycle.writes = 1
        /\ clipboard = cycle.json0
        /\ last_coordinates_txt = cycle.txt0
        /\ last_coordinates_json = cycle.json0
  /\ (/\ cycle.role = "AnyOther"
      /\ cycle.raised = "none"
      /\ cycle.after_consumer)
     => /\ cycle.clip0 = cycle.json0
        /\ cycle.writes = 1
        /\ clipboard = cycle.txt0
        /\ last_coordinates_txt = cycle.txt0
        /\ last_coordinates_json = cycle.json0

\* The AnyOther cycle of such a pair has restored lastHuman.
C12_Witness ==
  /\ cycle.role = "AnyOther"
  /\ cycle.after_consumer
  /\ cycle.raised = "none"
  /\ clipboard = last_coordinates_txt
  /\ Truthy(last_coordinates_txt)

\* C13: what a Producer cycle writes to the clipboard and stores in lastHuman
\* is a canonical HumanEncoding: four decimal fields without leading zeros
\* joined by ", ".  Stated for the default pattern.
C13_ProducerWritesCanonical ==
  LET Field(f) == AllDigits(f) /\ (Len(f) = 1 \/ f[1] # "0")
      Canonical(v) ==
        LET f == Split(v, ",")
        IN  IF Len(f) # 4 THEN FALSE
            ELSE /\ Field(f[1])
                 /\ \A i \in 2..4 :
                      IF f[i] = <<>> THEN FALSE
                      ELSE Head(f[i]) = " " /\ Field(Tail(f[i]))
  IN  (pattern = DefaultPattern /\ cycle.role = "Producer" /\ cycle.writes = 1)
      => (Canonical(clipboard) /\ Canonical(last_coordinates_txt))

\* C16: the Focus Probe raises nothing to the Sync Loop, whatever query of it
\* fails.
C16_ProbeNeverRaises ==
  cycle.probe # ProbeRaised

\* C17: the Sync Loop has no terminal state: it never exits on its own, only
\* on the user's interrupt.
C17_LoopExitsOnlyOnInterrupt ==
  pc = "exit" => cycle.role = "Interrupt"

\* C18: a cycle whose focused application is not paintdotnet.exe (NoFocus,
\* DesignatedConsumer, AnyOther) leaves lastHuman and lastStructured as they
\* were, whether or not it writes the clipboard.
C18_OnlyProducerChangesSyncState ==
  (\/ cycle.role \in {"NoFocus", "DesignatedConsumer", "AnyOther"}
   \/ cycle.probe \in ({NoWindow} \cup (ExeNames \ {"paintdotnet.exe"})))
  => /\ last_coordinates_txt = cycle.txt0
     /\ last_coordinates_json = cycle.json0

\* A cycle for another application wrote the clipboard and kept the SyncState.
C18_Witness ==
  /\ cycle.probe = "explorer.exe"
  /\ cycle.writes = 1
  /\ cycle.json0 # None
  /\ last_coordinates_txt = cycle.txt0
  /\ last_coordinates_json = cycle.json0

\* C19: right after a cycle that wrote the clipboard, the clipboard holds
\* lastStructured's serialization (DesignatedConsumer) or lastHuman (Producer,
\* AnyOther) as they stand at the end of the cycle.
C19_WritesCurrentSyncState ==
  cycle.writes = 1 =>
    /\ cycle.role \in {"Producer", "DesignatedConsumer", "AnyOther"}
    /\ IF cycle.role = "DesignatedConsumer"
       THEN clipboard = last_coordinates_json
       ELSE clipboard = last_coordinates_txt

\* A Producer cycle replaced the structured form of the previous selection,
\* read from a zero-padded readout, by the new lastHuman.
C19_Witness ==
  /\ cycle.role = "Producer"
  /\ cycle.writes = 1
  /\ cycle.raised = "none"
  /\ Truthy(cycle.json0)
  /\ cycle.clip0 = cycle.json0
  /\ clipboard = last_coordinates_txt
  /\ clipboard # HumanEncoding(cycle.shown)

\* C20: a cycle that follows a cycle with the same focused application and
\* the same selection readout, with no clipboard change by another actor in
\* between, writes nothing and leaves clipboard and SyncState as they were;
\* so of any run of such cycles only the first can write.
C20_NoOscillation ==
  cycle.repeat =>
    /\ cycle.writes = 0
    /\ cycle.logs = 0
    /\ clipboard = cycle.clip0
    /\ last_coordinates_txt = cycle.txt0
    /\ last_coordinates_json = cycle.json0

\* PRS.exe stays focused: the cycle after the one that translated reads the
\* clipboard and finds the structured form already there.
C20_Witness ==
  /\ cycle.repeat
  /\ cycle.role = "DesignatedConsumer"
  /\ cycle.reads = 1
  /\ cycle.raised = "none"
  /\ clipboard = last_coordinates_json

(***************************************************************************)
(* Properties of the Format Translator and the Selection Reader, checked   *)
(* under ReaderSpec.                                                       *)
(***************************************************************************)

\* C11: for a selection t = (x, y, width, height), the Format Translator
\* applied to the HumanEncoding of t returns, without raising, the document
\* whose X, Y, Width and Height are x, y, width and height.
C11_TranslatorRoundTrip ==
  (/\ pc \in {"done", "exit"}
   /\ Len(cycle.shown) = 4
   /\ last_read = HumanEncoding(cycle.shown))
  => /\ pc = "done"
     /\ last_coordinates_json =
          JsonDumps(cycle.shown[1], cycle.shown[2], cycle.shown[3], cycle.shown[4])

\* The selection (35, 0, 70, 35) was read in its HumanEncoding and translated.
C11_Witness ==
  /\ pc = "done"
  /\ cycle.shown = <<35, 0, 70, 35>>
  /\ last_read = HumanEncoding(<<35, 0, 70, 35>>)
  /\ last_coordinates_json = JsonDumps(35, 0, 70, 35)

\* C14: the first text element that contains the marker phrase decides the
\* Selection Reader's result: the joined groups when the pattern matches it,
\* None when it does not, whatever elements follow.
C14_FirstMarkerTextDecides ==
  LET texts == cycle.status.texts
      marked == { i \in 1..Len(texts) :
                    /\ texts[i].raises = "none"
                    /\ Contains(texts[i].text, MarkerPhrase) }
      first == IF marked = {} THEN 0
               ELSE CHOOSE i \in marked : \A j \in marked : i <= j
  IN  (/\ pc # "reader"
       /\ cycle.status.bar = "found"
       /\ first > 0
       /\ \A j \in 1..(first - 1) : texts[j].raises = "none")
      => last_read =
           IF PatternSearch(pattern, texts[first].text) # <<>>
           THEN Join(JoinSep, PatternSearch(pattern, texts[first].text))
           ELSE None

====
